---- MODULE Spec2Model ----
(***************************************************************************)
(* A model of the dependency health analysis engine of DepScout-Backend    *)
(* (src/src/services/analyzer.service.ts, class AnalyzerService).          *)
(*                                                                         *)
(* Strings the code inspects character by character (version ranges,      *)
(* version strings, severities) are tuples of one-character strings, so    *)
(* that String.replace, trim, toLowerCase and the semver grammar are       *)
(* computed and not assumed.  JavaScript values whose type the code does   *)
(* not control are records tagged with their type in field t.              *)
(***************************************************************************)
EXTENDS Integers, Sequences, FiniteSets, TLC

(***************************************************************************)
(* JavaScript values                                                       *)
(***************************************************************************)
Undefined == [t |-> "undefined"]
Null == [t |-> "null"]
Str(s) == [t |-> "string", s |-> s]
Num(n) == [t |-> "number", n |-> n]

IsStr(v) == v.t = "string"
IsNullish(v) == v.t \in {"undefined", "null"}

\* ToBoolean, as used by if (x), !x, x && y and x || y
Truthy(v) ==
    CASE v.t \in {"undefined", "null"} -> FALSE
      [] v.t = "string" -> v.s # <<>>
      [] v.t = "number" -> v.n # 0
      [] v.t = "boolean" -> v.b
      [] OTHER -> TRUE

\* LET x == e IN F(x), with e evaluated once however often F uses x
Bind(e, F(_)) == CHOOSE r \in {F(x) : x \in {e}} : TRUE

Max(a, b) == IF a > b THEN a ELSE b
Min(a, b) == IF a < b THEN a ELSE b

(***************************************************************************)
(* Characters                                                              *)
(***************************************************************************)
DigitChars == <<"0", "1", "2", "3", "4", "5", "6", "7", "8", "9">>
LowerChars == <<"a", "b", "c", "d", "e", "g", "h", "i", "k", "l", "m", "n", "o",
                "r", "s", "t", "u", "v", "w", "x">>
UpperChars == <<"A", "B", "C", "D", "E", "G", "H", "I", "K", "L", "M", "N", "O",
                "R", "S", "T", "U", "V", "W", "X">>

IsDigit(c) == \E i \in 1..10 : DigitChars[i] = c
DigitVal(c) == (CHOOSE i \in 1..10 : DigitChars[i] = c) - 1
IsLetter(c) == \E i \in 1..Len(LowerChars) : c = LowerChars[i] \/ c = UpperChars[i]

\* the order of the UTF-16 code units of the characters the model uses (String <
\* compares these): space - . digits < = > upper case ^ lower case ~
CharCode(c) ==
    CASE c = " " -> 32
      [] c = "-" -> 45
      [] c = "." -> 46
      [] IsDigit(c) -> 48 + DigitVal(c)
      [] c = "<" -> 60
      [] c = "=" -> 61
      [] c = ">" -> 62
      [] c = "^" -> 94
      [] c = "~" -> 126
      [] \E i \in 1..Len(UpperChars) : UpperChars[i] = c ->
            64 + (CHOOSE i \in 1..Len(UpperChars) : UpperChars[i] = c)
      [] OTHER -> 96 + (CHOOSE i \in 1..Len(LowerChars) : LowerChars[i] = c)

\* String.prototype.toLowerCase
LowerChar(c) ==
    IF \E i \in 1..Len(UpperChars) : UpperChars[i] = c
    THEN LowerChars[CHOOSE i \in 1..Len(UpperChars) : UpperChars[i] = c]
    ELSE c
ToLowerCase(s) == [i \in 1..Len(s) |-> LowerChar(s[i])]

\* String.prototype.trim
RECURSIVE TrimLeft(_)
TrimLeft(s) == IF s # <<>> /\ s[1] = " " THEN TrimLeft(Tail(s)) ELSE s
RECURSIVE TrimRight(_)
TrimRight(s) ==
    IF s # <<>> /\ s[Len(s)] = " " THEN TrimRight(SubSeq(s, 1, Len(s) - 1)) ELSE s
Trim(s) == Bind(TrimLeft(s), LAMBDA t : TrimRight(t))

\* JavaScript's < on two strings: code units, left to right, a proper prefix first
RECURSIVE StringLess(_, _)
StringLess(a, b) ==
    IF b = <<>> THEN FALSE
    ELSE IF a = <<>> THEN TRUE
    ELSE IF a[1] # b[1] THEN CharCode(a[1]) < CharCode(b[1])
    ELSE StringLess(Tail(a), Tail(b))

\* the pieces of s between the occurrences of sep
RECURSIVE SplitOn(_, _)
SplitOn(s, sep) ==
    IF \A i \in 1..Len(s) : s[i] # sep THEN <<s>>
    ELSE Bind(CHOOSE i \in 1..Len(s) : s[i] = sep /\ \A j \in 1..(i - 1) : s[j] # sep,
              LAMBDA k : <<SubSeq(s, 1, k - 1)>> \o SplitOn(SubSeq(s, k + 1, Len(s)), sep))

(***************************************************************************)
(* The semver library, as far as the service uses it (import * as semver). *)
(* A parsed version is [valid, major, minor, patch, prerelease]; the       *)
(* model's pre-release tags are one alphabetic identifier.                 *)
(***************************************************************************)
NoVersion == [valid |-> FALSE]

RECURSIVE NumVal(_)
NumVal(s) ==
    IF s = <<>> THEN 0 ELSE NumVal(SubSeq(s, 1, Len(s) - 1)) * 10 + DigitVal(s[Len(s)])

\* NUMERICIDENTIFIER: 0|[1-9]\d*
IsNumericId(s) ==
    /\ Len(s) > 0
    /\ \A i \in 1..Len(s) : IsDigit(s[i])
    /\ (Len(s) > 1 => s[1] # "0")

\* a pre-release tag of one alphabetic identifier
IsPrereleaseId(s) == Len(s) > 0 /\ \A i \in 1..Len(s) : IsLetter(s[i])

\* MAINVERSION(-PRERELEASE)?: the version without its leading v, split at its first "-"
SemverParsePlain(u) ==
    LET hasPre == \E i \in 1..Len(u) : u[i] = "-"
        dash == IF hasPre
                THEN CHOOSE i \in 1..Len(u) : u[i] = "-" /\ \A j \in 1..(i - 1) : u[j] # "-"
                ELSE Len(u) + 1
    IN Bind(SplitOn(SubSeq(u, 1, dash - 1), "."), LAMBDA parts :
       Bind(SubSeq(u, dash + 1, Len(u)), LAMBDA pre :
          IF /\ Len(parts) = 3
             /\ \A i \in 1..3 : IsNumericId(parts[i])
             /\ (hasPre => IsPrereleaseId(pre))
          THEN [valid |-> TRUE, major |-> NumVal(parts[1]), minor |-> NumVal(parts[2]),
                patch |-> NumVal(parts[3]), prerelease |-> pre]
          ELSE NoVersion))

\* build metadata of one alphanumeric identifier
IsBuildId(s) == Len(s) > 0 /\ \A i \in 1..Len(s) : IsLetter(s[i]) \/ IsDigit(s[i])

\* new SemVer(version): version.trim() matched against
\* ^v?MAINVERSION(-PRERELEASE)?(+BUILD)?$; the build metadata is not part of the version
SemverParse(s) ==
    Bind(Trim(s), LAMBDA t :
    Bind(IF t # <<>> /\ t[1] = "v" THEN Tail(t) ELSE t, LAMBDA u :
    Bind(SplitOn(u, "+"), LAMBDA pieces :
        IF Len(pieces) = 1 THEN SemverParsePlain(u)
        ELSE IF Len(pieces) = 2 /\ IsBuildId(pieces[2]) THEN SemverParsePlain(pieces[1])
        ELSE NoVersion)))

RECURSIVE NatToChars(_)
NatToChars(n) ==
    IF n < 10 THEN <<DigitChars[n + 1]>>
    ELSE NatToChars(n \div 10) \o <<DigitChars[(n % 10) + 1]>>

\* SemVer.format(): the canonical string of a parsed version
SemverFormat(v) ==
    NatToChars(v.major) \o <<".">> \o NatToChars(v.minor) \o <<".">> \o NatToChars(v.patch)
        \o (IF v.prerelease = <<>> THEN <<>> ELSE <<"-">> \o v.prerelease)

\* semver.valid(s): the canonical version string, or null
SemverValid(s) ==
    Bind(SemverParse(s), LAMBDA v : IF v.valid THEN Str(SemverFormat(v)) ELSE Null)

\* semver.clean(s): s.trim().replace(/^[=v]+/, '') parsed, or null
RECURSIVE StripEqV(_)
StripEqV(s) == IF s # <<>> /\ s[1] \in {"=", "v"} THEN StripEqV(Tail(s)) ELSE s
SemverClean(s) == SemverValid(StripEqV(Trim(s)))

\* SemVer.compareMain
CompareMain(a, b) ==
    IF a.major # b.major THEN (IF a.major < b.major THEN -1 ELSE 1)
    ELSE IF a.minor # b.minor THEN (IF a.minor < b.minor THEN -1 ELSE 1)
    ELSE IF a.patch # b.patch THEN (IF a.patch < b.patch THEN -1 ELSE 1)
    ELSE 0

\* SemVer.comparePre: a release is greater than its pre-releases
ComparePre(a, b) ==
    IF a.prerelease # <<>> /\ b.prerelease = <<>> THEN -1
    ELSE IF a.prerelease = <<>> /\ b.prerelease # <<>> THEN 1
    ELSE IF a.prerelease = b.prerelease THEN 0
    ELSE IF StringLess(a.prerelease, b.prerelease) THEN -1 ELSE 1

\* SemVer.compare
SemverCompare(a, b) ==
    Bind(CompareMain(a, b), LAMBDA main : IF main # 0 THEN main ELSE ComparePre(a, b))

\* semver.gt(a, b) on two parsed versions (it throws on an invalid one)
SemverGt(a, b) == SemverCompare(a, b) > 0

\* semver.diff(v1, v2) of semver 7.5.2 and later, on two parsed versions
SemverDiffOrdered(v1, v2, cmp) ==
    LET high == IF cmp > 0 THEN v1 ELSE v2
        low == IF cmp > 0 THEN v2 ELSE v1
        highHasPre == high.prerelease # <<>>
        lowHasPre == low.prerelease # <<>>
    IN IF cmp = 0 THEN "null"
       ELSE IF lowHasPre /\ ~highHasPre /\ low.patch = 0 /\ low.minor = 0 THEN "major"
       ELSE IF lowHasPre /\ ~highHasPre /\ CompareMain(low, high) = 0
            THEN (IF low.minor # 0 /\ low.patch = 0 THEN "minor" ELSE "patch")
       ELSE IF v1.major # v2.major THEN (IF highHasPre THEN "premajor" ELSE "major")
       ELSE IF v1.minor # v2.minor THEN (IF highHasPre THEN "preminor" ELSE "minor")
       ELSE IF v1.patch # v2.patch THEN (IF highHasPre THEN "prepatch" ELSE "patch")
       ELSE "prerelease"

SemverDiff(v1, v2) == Bind(SemverCompare(v1, v2), LAMBDA cmp : SemverDiffOrdered(v1, v2, cmp))

(***************************************************************************)
(* AnalyzerService: version operations                                     *)
(***************************************************************************)
RangeOperatorChars == {"^", "~", ">", "=", "<"}

\* extractVersionFromRange: range.replace(/[\^~>=<]/g, '').trim(), then semver.valid
extractVersionFromRange(range) ==
    Bind(Trim(SelectSeq(range, LAMBDA c : c \notin RangeOperatorChars)),
         LAMBDA cleaned : SemverValid(cleaned))

\* determineUpdateType: semver.diff of the two cleaned versions, 'patch' as fallback
UpdateTypeOfDiff(diffType) ==
    IF diffType \in {"major", "premajor"} THEN "major"
    ELSE IF diffType \in {"minor", "preminor"} THEN "minor"
    ELSE IF diffType \in {"patch", "prepatch"} THEN "patch"
    ELSE "patch"

determineUpdateType(currentVersion, latestVersion) ==
    Bind(SemverClean(currentVersion), LAMBDA current :
    Bind(SemverClean(latestVersion), LAMBDA latest :
       IF ~Truthy(current) \/ ~Truthy(latest) THEN "patch"
       ELSE Bind(SemverParse(current.s), LAMBDA c :
            Bind(SemverParse(latest.s), LAMBDA l : UpdateTypeOfDiff(SemverDiff(c, l))))))

ZeroDistance ==
    [majorVersionsBehind |-> 0, minorVersionsBehind |-> 0, patchVersionsBehind |-> 0,
     totalDistance |-> 0]

\* calculateVersionDistance
DistanceBetween(c, l) ==
    LET majorDiff == l.major - c.major
        minorDiff == l.minor - c.minor
        patchDiff == l.patch - c.patch
    IN [majorVersionsBehind |-> majorDiff,
        minorVersionsBehind |-> IF majorDiff = 0 THEN minorDiff ELSE 0,
        patchVersionsBehind |-> IF majorDiff = 0 /\ minorDiff = 0 THEN patchDiff ELSE 0,
        totalDistance |-> majorDiff * 10000 + minorDiff * 100 + patchDiff]

calculateVersionDistance(current, latest) ==
    Bind(SemverClean(current), LAMBDA curr :
    Bind(SemverClean(latest), LAMBDA lat :
       IF ~Truthy(curr) \/ ~Truthy(lat) THEN ZeroDistance
       ELSE Bind(SemverParse(curr.s), LAMBDA c :
            Bind(SemverParse(lat.s), LAMBDA l : DistanceBetween(c, l)))))

(***************************************************************************)
(* AnalyzerService: the report and the health score                        *)
(***************************************************************************)
CRITICAL == <<"c", "r", "i", "t", "i", "c", "a", "l">>
HIGH == <<"h", "i", "g", "h">>
MODERATE == <<"m", "o", "d", "e", "r", "a", "t", "e">>
LOW == <<"l", "o", "w">>
UNKNOWN == <<"u", "n", "k", "n", "o", "w", "n">>
Severities == {CRITICAL, HIGH, MODERATE, LOW, UNKNOWN}

\* Array.prototype.filter(...).length
CountWhere(list, Test(_)) == Len(SelectSeq(list, Test))

\* a variant of UpdateSummary: summary.high is not updated
UpdateSummary_HighNotUpdated(r) ==
    Bind([r.summary EXCEPT
            !.critical = CountWhere(r.vulnerabilities, LAMBDA v : v.severity = CRITICAL),
            !.high = r.summary.high,
            !.moderate = CountWhere(r.vulnerabilities, LAMBDA v : v.severity = MODERATE),
            !.low = CountWhere(r.vulnerabilities, LAMBDA v : v.severity = LOW),
            !.outdated = Len(r.outdated)],
         LAMBDA counted :
            [r EXCEPT !.summary = counted,
                      !.totalDependencies = counted.totalDeps + counted.totalDevDeps])

\* generateDependencyReport, "Update summary counts": the summary and the total are
\* derived from the two lists
UpdateSummary(r) ==
    Bind([r.summary EXCEPT
            !.critical = CountWhere(r.vulnerabilities, LAMBDA v : v.severity = CRITICAL),
            !.high = CountWhere(r.vulnerabilities, LAMBDA v : v.severity = HIGH),
            !.moderate = CountWhere(r.vulnerabilities, LAMBDA v : v.severity = MODERATE),
            !.low = CountWhere(r.vulnerabilities, LAMBDA v : v.severity = LOW),
            !.outdated = Len(r.outdated)],
         LAMBDA counted :
            [r EXCEPT !.summary = counted,
                      !.totalDependencies = counted.totalDeps + counted.totalDevDeps])

\* a variant of OutdatedPenalty: a major bump costs a flat 5, however many majors behind
OutdatedPenalty_FlatMajor(pkg) ==
    Bind(calculateVersionDistance(pkg.current, pkg.latest), LAMBDA distance :
       IF pkg.type = "major" THEN 5
       ELSE IF pkg.type = "minor" THEN distance.minorVersionsBehind * 2
       ELSE IF pkg.type = "patch" THEN distance.patchVersionsBehind * 1
       ELSE 0)

\* calculateHealthScore, the forEach callback: what one outdated entry subtracts
OutdatedPenalty(pkg) ==
    Bind(calculateVersionDistance(pkg.current, pkg.latest), LAMBDA distance :
       IF pkg.type = "major" THEN distance.majorVersionsBehind * 5
       ELSE IF pkg.type = "minor" THEN distance.minorVersionsBehind * 2
       ELSE IF pkg.type = "patch" THEN distance.patchVersionsBehind * 1
       ELSE 0)

\* a variant of SumOutdatedPenalty: only the first outdated entry is charged
SumOutdatedPenalty_FirstOnly(list) ==
    IF list = <<>> THEN 0 ELSE OutdatedPenalty(Head(list))

RECURSIVE SumOutdatedPenalty(_)
SumOutdatedPenalty(list) ==
    IF list = <<>> THEN 0 ELSE OutdatedPenalty(Head(list)) + SumOutdatedPenalty(Tail(list))

\* a variant of RawScore: the penalty of a low vulnerability is added, not subtracted
RawScore_LowAdded(r) ==
    100 - r.summary.critical * 15 - r.summary.high * 10 - r.summary.moderate * 5
        + r.summary.low * 2 - SumOutdatedPenalty(r.outdated)

\* a variant of RawScore: a high vulnerability weighs as much as a moderate one
RawScore_HighAsModerate(r) ==
    100 - r.summary.critical * 15 - r.summary.high * 5 - r.summary.moderate * 5
        - r.summary.low * 2 - SumOutdatedPenalty(r.outdated)

\* calculateHealthScore: the local variable score before the return statement
RawScore(r) ==
    100 - r.summary.critical * 15 - r.summary.high * 10 - r.summary.moderate * 5
        - r.summary.low * 2 - SumOutdatedPenalty(r.outdated)

\* Math.round: every penalty is an integer, and so is the score it rounds
MathRound(x) == x

\* a variant of calculateHealthScore: the rounded score is returned unclamped
calculateHealthScore_Unclamped(r) == MathRound(RawScore(r))

\* calculateHealthScore
calculateHealthScore(r) == Max(0, Min(100, MathRound(RawScore(r))))

\* generateDependencyReport from "Update summary counts" to "Calculate health score"
ScoreReport(r) ==
    Bind(UpdateSummary(r), LAMBDA counted :
       [counted EXCEPT !.healthScore = calculateHealthScore(counted)])

\* a JavaScript object is [t |-> "object", m |-> its own properties]
Object(m) == [t |-> "object", m |-> m]
EmptyObject == Object(<<>>)

\* x || {}
OrEmptyObject(v) == IF Truthy(v) THEN v ELSE EmptyObject

\* Object.keys(v).length of a value that is not null or undefined: the own properties
\* of an object, the indices of a string, nothing of a number
ObjectKeysLength(v) ==
    CASE v.t = "object" -> Cardinality(DOMAIN v.m)
      [] v.t = "string" -> Len(v.s)
      [] OTHER -> 0

\* buildOutdatedList; npmOutdated is the record in insertion order, a sequence of
\* [name, current, latest]
RECURSIVE buildOutdatedList(_)
buildOutdatedList(npmOutdated) ==
    IF npmOutdated = <<>> THEN <<>>
    ELSE Bind(Head(npmOutdated), LAMBDA pkgInfo :
            IF ~Truthy(SemverValid(pkgInfo.current)) \/ ~Truthy(SemverValid(pkgInfo.latest))
            THEN buildOutdatedList(Tail(npmOutdated))
            ELSE <<[package |-> pkgInfo.name,
                    current |-> pkgInfo.current,
                    latest |-> pkgInfo.latest,
                    type |-> determineUpdateType(pkgInfo.current, pkgInfo.latest)]>>
                 \o buildOutdatedList(Tail(npmOutdated)))

\* generateDependencyReport, "Build the report": the report before the vulnerabilities
\* are processed; dependencies and devDependencies are the manifest's two properties
NewReport(dependencies, devDependencies, npmOutdated) ==
    [dependencies |-> OrEmptyObject(dependencies),
     devDependencies |-> OrEmptyObject(devDependencies),
     healthScore |-> 100,
     outdated |-> buildOutdatedList(npmOutdated),
     summary |-> [critical |-> 0, high |-> 0, moderate |-> 0, low |-> 0, outdated |-> 0,
                  totalDeps |-> ObjectKeysLength(OrEmptyObject(dependencies)),
                  totalDevDeps |-> ObjectKeysLength(OrEmptyObject(devDependencies))],
     totalDependencies |-> 0,
     vulnerabilities |-> <<>>]

(***************************************************************************)
(* AnalyzerService: vulnerability processing.  The audit data is untyped   *)
(* (npmAudit: any): an object is [t |-> "object", ...] with the properties *)
(* the code reads, Undefined where it has none; the vulnerabilities        *)
(* mapping is the sequence of its [name, info] entries in insertion order. *)
(***************************************************************************)
Array(items) == [t |-> "array", items |-> items]
Bool(b) == [t |-> "boolean", b |-> b]
ViaObject(source, title, severity, range) ==
    [t |-> "object", source |-> source, title |-> title, severity |-> severity,
     range |-> range]
VulnInfo(via, fixAvailable) == [t |-> "object", via |-> via, fixAvailable |-> fixAvailable]
FixAvailable(version) == [t |-> "object", version |-> version]
AuditObject(entries) ==
    [t |-> "object", vulnerabilities |-> [t |-> "object", entries |-> entries]]

\* x || fallback
OrElse(v, fallback) == IF Truthy(v) THEN v ELSE fallback

\* Number.prototype.toString and String.prototype.toString
JsToString(v) == IF v.t = "number" THEN Str(NatToChars(v.n)) ELSE v

\* a variant of normalizeSeverity: the lower-cased severity is returned unchecked
normalizeSeverity_Unchecked(severity) ==
    IF ~Truthy(severity) THEN [thrown |-> FALSE, value |-> UNKNOWN]
    ELSE IF ~IsStr(severity) THEN [thrown |-> TRUE, value |-> UNKNOWN]
    ELSE [thrown |-> FALSE, value |-> ToLowerCase(severity.s)]

\* normalizeSeverity; thrown: severity.toLowerCase is not a function (a TypeError)
normalizeSeverity(severity) ==
    IF ~Truthy(severity) THEN [thrown |-> FALSE, value |-> UNKNOWN]
    ELSE IF ~IsStr(severity) THEN [thrown |-> TRUE, value |-> UNKNOWN]
    ELSE Bind(ToLowerCase(severity.s), LAMBDA normalized :
            IF normalized \in {CRITICAL, HIGH, MODERATE, LOW}
            THEN [thrown |-> FALSE, value |-> normalized]
            ELSE [thrown |-> FALSE, value |-> UNKNOWN])

\* `vuln-${pkg}-${Date.now()}`
SynthesizedId(pkg, now) == Str(<<"vuln-", pkg, "-", ToString(now)>>)

\* vulnInfo.fixAvailable?.version
FixVersion(vulnInfo) ==
    IF vulnInfo.fixAvailable.t = "object" THEN vulnInfo.fixAvailable.version ELSE Undefined

\* processVulnerabilities, the forEach callback on one element of via: the entries it
\* pushes (none or one), or thrown: a property of null was read, or normalizeSeverity
\* threw
ProcessVia(pkg, vulnInfo, via, now) ==
    IF via.t = "null" THEN [thrown |-> TRUE, list |-> <<>>]
    ELSE IF via.t = "object" /\ (Truthy(via.source) \/ Truthy(via.title))
    THEN Bind(normalizeSeverity(via.severity), LAMBDA severity :
            IF severity.thrown THEN [thrown |-> TRUE, list |-> <<>>]
            ELSE [thrown |-> FALSE,
                  list |-> <<[id |-> OrElse(IF IsNullish(via.source) THEN Undefined
                                            ELSE JsToString(via.source),
                                            SynthesizedId(pkg, now)),
                              package |-> pkg,
                              version |-> OrElse(via.range, Str(<<"unknown">>)),
                              severity |-> severity.value,
                              description |->
                                  OrElse(via.title, Str(<<"No description available">>)),
                              fixedIn |->
                                  OrElse(FixVersion(vulnInfo), Str(<<"Check npm registry">>))]>>])
    ELSE [thrown |-> FALSE, list |-> <<>>]

\* vulnInfo.via.forEach(...): an exception ends the loop
RECURSIVE ProcessViaList(_, _, _, _)
ProcessViaList(pkg, vulnInfo, items, now) ==
    IF items = <<>> THEN [thrown |-> FALSE, list |-> <<>>]
    ELSE Bind(ProcessVia(pkg, vulnInfo, Head(items), now), LAMBDA first :
            IF first.thrown THEN first
            ELSE Bind(ProcessViaList(pkg, vulnInfo, Tail(items), now), LAMBDA rest :
                    [thrown |-> rest.thrown, list |-> first.list \o rest.list]))

\* processVulnerabilities, the body of the for loop for one [pkg, vulnInfo] entry
ProcessPackage(entry, now) ==
    IF entry.info.t = "null" THEN [thrown |-> TRUE, list |-> <<>>]
    ELSE IF entry.info.t = "object" /\ Truthy(entry.info.via) /\ entry.info.via.t = "array"
    THEN ProcessViaList(entry.name, entry.info, entry.info.via.items, now)
    ELSE [thrown |-> FALSE, list |-> <<>>]

\* for (const [pkg, vulnInfo] of Object.entries(...)): an exception ends the loop
RECURSIVE ProcessPackages(_, _)
ProcessPackages(entries, now) ==
    IF entries = <<>> THEN [thrown |-> FALSE, list |-> <<>>]
    ELSE Bind(ProcessPackage(Head(entries), now), LAMBDA first :
            IF first.thrown THEN first
            ELSE Bind(ProcessPackages(Tail(entries), now), LAMBDA rest :
                    [thrown |-> rest.thrown, list |-> first.list \o rest.list]))

\* processVulnerabilities: what was pushed before an exception, if any, is returned
processVulnerabilities(audit, now) ==
    IF IsNullish(audit) THEN <<>>
    ELSE IF audit.t = "object" /\ Truthy(audit.vulnerabilities)
    THEN ProcessPackages(audit.vulnerabilities.entries, now).list
    ELSE <<>>

(***************************************************************************)
(* The manifest (packageJson: any) and the merged dependency mapping.  An  *)
(* object's own properties are the sequence of its [name, value] entries   *)
(* in the order Object.entries gives them.                                 *)
(***************************************************************************)
Manifest(dependencies, devDependencies) ==
    [t |-> "object", dependencies |-> dependencies, devDependencies |-> devDependencies]

\* packageJson.dependencies, packageJson.devDependencies of a manifest that is not null
\* or undefined: a number or a string has neither property
ManifestDependencies(packageJson) ==
    IF packageJson.t = "object" THEN packageJson.dependencies ELSE Undefined
ManifestDevDependencies(packageJson) ==
    IF packageJson.t = "object" THEN packageJson.devDependencies ELSE Undefined

\* the own enumerable properties { ...v } copies: those of an object, the characters of
\* a string under their indices, none of undefined, null or a number
SpreadEntries(v) ==
    CASE v.t = "object" -> v.m
      [] v.t = "string" ->
            [i \in 1..Len(v.s) |-> [name |-> ToString(i - 1), value |-> Str(<<v.s[i]>>)]]
      [] OTHER -> <<>>

HasKey(entries, name) == \E i \in DOMAIN entries : entries[i].name = name

\* target[e.name] = e: an existing property keeps its place, a new one comes last
SetProp(target, e) ==
    IF HasKey(target, e.name)
    THEN [i \in DOMAIN target |-> IF target[i].name = e.name THEN e ELSE target[i]]
    ELSE Append(target, e)

\* the order of own properties: integer indices ascending, then the other names in
\* insertion order
RECURSIVE IndexProps(_, _)
IndexProps(entries, i) ==
    IF i >= Len(entries) THEN <<>>
    ELSE SelectSeq(entries, LAMBDA e : e.name = ToString(i)) \o IndexProps(entries, i + 1)
OwnPropertyOrder(entries) ==
    IndexProps(entries, 0)
    \o SelectSeq(entries, LAMBDA e : \A i \in 0..(Len(entries) - 1) : e.name # ToString(i))

RECURSIVE SpreadInto(_, _)
SpreadInto(target, entries) ==
    IF entries = <<>> THEN OwnPropertyOrder(target)
    ELSE SpreadInto(SetProp(target, Head(entries)), Tail(entries))

\* { ...packageJson.dependencies, ...packageJson.devDependencies }
MergedDependencies(packageJson) ==
    SpreadInto(SpreadEntries(ManifestDependencies(packageJson)),
               SpreadEntries(ManifestDevDependencies(packageJson)))

(***************************************************************************)
(* Registry and npms.io responses (JSON.parse(data)), with the properties  *)
(* the service reads.                                                      *)
(***************************************************************************)
DistTags(latest) == [t |-> "object", latest |-> latest]
VersionData(deprecated) == [t |-> "object", deprecated |-> deprecated]
PackageInfo(distTags, versions) ==
    [t |-> "object", distTags |-> distTags, versions |-> versions]

\* scores are in hundredths: 0.5 is 50, 0.3 is 30
NpmsData(quality, maintenance, hasVulnerabilities) ==
    [t |-> "object", quality |-> quality, maintenance |-> maintenance,
     hasVulnerabilities |-> hasVulnerabilities]

\* info['dist-tags']?.latest of an info that is not null
DistTagsLatest(info) ==
    IF IsNullish(info.distTags) THEN Undefined ELSE info.distTags.latest

\* pkgInfo.versions[currentVersion]
VersionsGet(versions, currentVersion) ==
    IF \E i \in DOMAIN versions.m : versions.m[i].name = currentVersion
    THEN (CHOOSE e \in {versions.m[i] : i \in DOMAIN versions.m} : e.name = currentVersion).value
    ELSE Undefined

\* x < threshold on a score: false for undefined
ScoreBelow(x, threshold) == x.t = "number" /\ x.n < threshold

(***************************************************************************)
(* getOutdatedFast                                                         *)
(***************************************************************************)
\* a variant of IsNewer: the two versions are compared as strings
IsNewer_StringOrder(latest, current) ==
    IF ~IsStr(latest) THEN [thrown |-> TRUE, value |-> FALSE]
    ELSE Bind(SemverParse(latest.s), LAMBDA l :
            IF ~l.valid THEN [thrown |-> TRUE, value |-> FALSE]
            ELSE [thrown |-> FALSE, value |-> StringLess(current.s, latest.s)])

\* semver.gt(latest, current), current being a valid version; thrown: latest is not a
\* version (a TypeError)
IsNewer(latest, current) ==
    IF ~IsStr(latest) THEN [thrown |-> TRUE, value |-> FALSE]
    ELSE Bind(SemverParse(latest.s), LAMBDA l :
            IF ~l.valid THEN [thrown |-> TRUE, value |-> FALSE]
            ELSE [thrown |-> FALSE, value |-> SemverGt(l, SemverParse(current.s))])

\* a variant of OutdatedAfterInfo: the record is replaced by one that holds the new
\* entry only
OutdatedAfterInfo_Overwrites(acc, name, range, info) ==
    IF info.t = "null" \/ ~IsStr(range) THEN acc
    ELSE Bind(DistTagsLatest(info), LAMBDA latest :
         Bind(extractVersionFromRange(range.s), LAMBDA current :
            IF ~Truthy(current) \/ ~Truthy(latest) THEN acc
            ELSE Bind(IsNewer(latest, current), LAMBDA newer :
                    IF newer.thrown \/ ~newer.value THEN acc
                    ELSE <<[name |-> name, current |-> current.s, latest |-> latest.s]>>)))

\* the callback of getOutdatedFast from the response of fetchPackageInfo on: the
\* outdated record it leaves.  An exception (info is null, range is not a string,
\* latest is not a version) is caught and leaves the record as it was.
OutdatedAfterInfo(acc, name, range, info) ==
    IF info.t = "null" \/ ~IsStr(range) THEN acc
    ELSE Bind(DistTagsLatest(info), LAMBDA latest :
         Bind(extractVersionFromRange(range.s), LAMBDA current :
            IF ~Truthy(current) \/ ~Truthy(latest) THEN acc
            ELSE Bind(IsNewer(latest, current), LAMBDA newer :
                    IF newer.thrown \/ ~newer.value THEN acc
                    ELSE OwnPropertyOrder(SetProp(acc,
                            [name |-> name, current |-> current.s, latest |-> latest.s]))))) 

(***************************************************************************)
(* getNpmAuditFast and checkNpmsIoSecurity.  The vulnerabilities object is *)
(* the sequence of its [name, info] entries.                               *)
(***************************************************************************)
S_moderate == Str(MODERATE)
S_high == Str(HIGH)

\* the callback of getNpmAuditFast from the response of fetchPackageInfo up to the call
\* of checkNpmsIoSecurity: the vulnerabilities object it leaves, and whether it goes on
\* to await fetchNpmsIoData.  It does not where it has returned (no current version) or
\* thrown into its catch block (version is not a string, pkgInfo is null).
AuditAfterInfo(acc, name, version, pkgInfo) ==
    IF ~IsStr(version) THEN [vulnerabilities |-> acc, awaits |-> FALSE]
    ELSE Bind(extractVersionFromRange(version.s), LAMBDA currentVersion :
            IF ~Truthy(currentVersion) \/ pkgInfo.t = "null"
            THEN [vulnerabilities |-> acc, awaits |-> FALSE]
            ELSE IF ~Truthy(pkgInfo.versions)
            THEN [vulnerabilities |-> acc, awaits |-> TRUE]
            ELSE Bind(VersionsGet(pkgInfo.versions, currentVersion.s), LAMBDA versionData :
                    IF Truthy(versionData) /\ Truthy(versionData.deprecated)
                    THEN [vulnerabilities |->
                            OwnPropertyOrder(SetProp(acc,
                                [name |-> name,
                                 info |-> VulnInfo(
                                    Array(<<ViaObject(Str(<<"npm-deprecated-", name>>),
                                                      versionData.deprecated, S_moderate,
                                                      version)>>),
                                    FixAvailable(OrElse(DistTagsLatest(pkgInfo),
                                                        currentVersion)))])),
                          awaits |-> TRUE]
                    ELSE [vulnerabilities |-> acc, awaits |-> TRUE]))

\* if (!vulnerabilities[packageName]) vulnerabilities[packageName] = {via: [], ...};
\* vulnerabilities[packageName].via.push(via)
PushVia(acc, packageName, via) ==
    Bind(IF HasKey(acc, packageName) THEN acc
         ELSE OwnPropertyOrder(Append(acc,
                [name |-> packageName,
                 info |-> VulnInfo(Array(<<>>), FixAvailable(Str(<<"latest">>)))])),
         LAMBDA withEntry :
            [i \in DOMAIN withEntry |->
                IF withEntry[i].name = packageName
                THEN [withEntry[i] EXCEPT !.info.via.items = Append(@, via)]
                ELSE withEntry[i]])

\* a variant of AuditAfterNpms: the flag is looked at only when the scores are fine
AuditAfterNpms_FlagOnlyIfScoresFine(acc, packageName, version, npmsData) ==
    IF IsNullish(npmsData) THEN acc
    ELSE IF ScoreBelow(npmsData.quality, 50) \/ ScoreBelow(npmsData.maintenance, 50)
    THEN PushVia(acc, packageName,
            ViaObject(Str(<<"npms-quality-check">>),
                      Str(<<"Low quality/maintenance score detected">>),
                      IF ScoreBelow(npmsData.quality, 30) THEN S_high ELSE S_moderate,
                      version))
    ELSE IF Truthy(npmsData.hasVulnerabilities)
    THEN PushVia(acc, packageName,
            ViaObject(Str(<<"npms-vulnerability-flag">>),
                      Str(<<"Package flagged with known vulnerabilities">>),
                      S_high, version))
    ELSE acc

\* checkNpmsIoSecurity from the response of fetchNpmsIoData on: the vulnerabilities
\* object it leaves.  npmsData's quality and maintenance are score.detail.quality and
\* score.detail.maintenance, hasVulnerabilities is collected.metadata.hasVulnerabilities.
AuditAfterNpms(acc, packageName, version, npmsData) ==
    IF IsNullish(npmsData) THEN acc
    ELSE Bind(IF ScoreBelow(npmsData.quality, 50) \/ ScoreBelow(npmsData.maintenance, 50)
              THEN PushVia(acc, packageName,
                      ViaObject(Str(<<"npms-quality-check">>),
                                Str(<<"Low quality/maintenance score detected">>),
                                IF ScoreBelow(npmsData.quality, 30) THEN S_high
                                ELSE S_moderate,
                                version))
              ELSE acc,
              LAMBDA afterScore :
                 IF Truthy(npmsData.hasVulnerabilities)
                 THEN PushVia(afterScore, packageName,
                         ViaObject(Str(<<"npms-vulnerability-flag">>),
                                   Str(<<"Package flagged with known vulnerabilities">>),
                                   S_high, version))
                 ELSE afterScore)

(***************************************************************************)
(* getNpmAudit: `npm audit --json` in the service's own directory          *)
(***************************************************************************)
Json(value) == [t |-> "json", value |-> value]
Unparseable == [t |-> "unparseable"]
EmptyOutput == [t |-> "empty"]

\* { vulnerabilities: {} }
NoVulnerabilities == AuditObject(<<>>)

\* a variant of getNpmAudit: nothing is substituted for output that cannot be parsed
getNpmAudit_NothingSubstituted(exit, stdout) ==
    IF stdout.t = "json" THEN stdout.value ELSE Null

\* getNpmAudit, once the child process has ended with the given exit and stdout
getNpmAudit(exit, stdout) ==
    IF exit = "ok"
    THEN (IF stdout.t = "json" THEN stdout.value ELSE NoVulnerabilities)
    ELSE IF stdout.t = "empty" THEN NoVulnerabilities
    ELSE IF stdout.t = "json" THEN stdout.value
    ELSE NoVulnerabilities

(***************************************************************************)
(* The per-package callbacks of a run.  A task is one call of the callback *)
(* passed to Object.entries(deps).map: pc is the fetch it awaits, or done  *)
(* (its promise is fulfilled), or rejected.                                *)
(***************************************************************************)
Pending == [kind |-> "pending", body |-> Undefined]
Received(body) == [kind |-> "response", body |-> body]
Failed(kind) == [kind |-> kind, body |-> Undefined]

NewTask(e) ==
    [name |-> e.name, range |-> e.value, pc |-> "registry", registry |-> Pending,
     npms |-> Pending,
     requests |-> 1]     \* the calls of https.get for the registry document so far

\* Object.entries(deps).map(async ([name, range]) => ...): one task per merged entry
NewTasks(deps) == [i \in DOMAIN deps |-> NewTask(deps[i])]

\* a variant of AfterRegistryFailure: the rejection of fetchPackageInfo is not caught
AfterRegistryFailure_Uncaught(task, kind) ==
    [task EXCEPT !.pc = "rejected", !.registry = Failed(kind)]

\* a variant of AfterRegistryFailure: the request is issued again
AfterRegistryFailure_Retried(task, kind) ==
    [task EXCEPT !.registry = Pending, !.requests = @ + 1]

\* fetchPackageInfo rejects (an 'error' event, or JSON.parse throws) and the callback's
\* catch block swallows it: the callback's promise is fulfilled
AfterRegistryFailure(task, kind) ==
    [task EXCEPT !.pc = "done", !.registry = Failed(kind)]

\* Promise.all(promises) has settled: fulfilled when all are, rejected when one is
AllSettled(ts) == \A i \in DOMAIN ts : ts[i].pc \in {"done", "rejected"}
AnyRejected(ts) == \E i \in DOMAIN ts : ts[i].pc = "rejected"

\* `Failed to generate dependency report: ${error.message}`
ReportError(cause) ==
    [t |-> "error", message |-> <<"Failed to generate dependency report: ", cause>>]

\* the message of the TypeError of packageJson.dependencies on null or undefined
CannotReadDependencies(packageJson) ==
    IF packageJson.t = "null"
    THEN "Cannot read properties of null (reading 'dependencies')"
    ELSE "Cannot read properties of undefined (reading 'dependencies')"

\* the message of the TypeError of packageJson.name on null or undefined
CannotReadName(packageJson) ==
    IF packageJson.t = "null"
    THEN "Cannot read properties of null (reading 'name')"
    ELSE "Cannot read properties of undefined (reading 'name')"

\* a variant of VulnerabilityReportCatch: the error is thrown on to the caller
VulnerabilityReportCatch_Rethrown(error) ==
    [t |-> "error", message |-> <<"Error generating vulnerability report: ", error>>]

\* generateVulnerabilityReport, the catch block: the error is logged and [] returned
VulnerabilityReportCatch(error) == [t |-> "vulnerabilities", list |-> <<>>]

NoResult == [t |-> "none"]
NoReport == [t |-> "none"]

VARIABLES
    manifest,         \* packageJson, the argument of the public method
    op,               \* the public method that is running: "none" before the call
    tasks,            \* the per-package callbacks, in the order they were started
    outdated,         \* getOutdatedFast's outdated record, in insertion order
    vulnerabilities,  \* getNpmAuditFast's vulnerabilities object, in insertion order
    npmAudit,         \* the audit data handed to processVulnerabilities; undefined
                      \* while getNpmAudit has not returned
    report,           \* the DependencyReport built and returned
    result,           \* what the public method has returned or thrown
    child,            \* the `npm audit --json` child process of getNpmAudit
    severityCall,     \* normalizeSeverity: its argument, then what it returned
    updateTypeCall    \* determineUpdateType: its two arguments and what it returned

vars ==
    <<manifest, op, tasks, outdated, vulnerabilities, npmAudit, report, result, child,
      severityCall, updateTypeCall>>

NoChild == [state |-> "none"]
ChildRunning == [state |-> "running"]
ChildEnded(exit, stdout) == [state |-> "ended", exit |-> exit, stdout |-> stdout]
NoUpdateTypeCall == [called |-> FALSE, current |-> <<>>, latest |-> <<>>, type |-> ""]
NoCall == [calls |-> 0, input |-> Undefined, value |-> Undefined, thrown |-> FALSE]

\* no public method has been called
NotCalled ==
    /\ manifest = Undefined
    /\ op = "none"
    /\ tasks = <<>>
    /\ outdated = <<>>
    /\ vulnerabilities = <<>>
    /\ child = NoChild
    /\ severityCall = NoCall
    /\ updateTypeCall = NoUpdateTypeCall

(***************************************************************************)
(* ScoreSpec: calculateHealthScore over the reports reached by adding one  *)
(* vulnerability or one outdated entry at a time to the empty report.      *)
(***************************************************************************)
MaxVulns == 2
MaxOutdated == 2

V_1_0_0 == <<"1", ".", "0", ".", "0">>
V_2_0_0 == <<"2", ".", "0", ".", "0">>
V_1_1_0 == <<"1", ".", "1", ".", "0">>
V_1_2_0 == <<"1", ".", "2", ".", "0">>
V_1_1_1 == <<"1", ".", "1", ".", "1">>
V_1_1_2 == <<"1", ".", "1", ".", "2">>
V_21_3_4 == <<"2", "1", ".", "3", ".", "4">>
V_1_0_0_a == <<"1", ".", "0", ".", "0", "-", "a">>
V_1_9_0 == <<"1", ".", "9", ".", "0">>
V_1_10_0 == <<"1", ".", "1", "0", ".", "0">>
V_3_0_0 == <<"3", ".", "0", ".", "0">>
NotAVersion == <<"x">>

\* (current, latest) pairs as getOutdatedFast records them
ScorePairs ==
    {<<V_1_0_0, V_2_0_0>>, <<V_1_1_0, V_1_2_0>>, <<V_1_1_1, V_1_1_2>>,
     <<V_1_0_0, V_21_3_4>>, <<V_1_0_0_a, V_1_1_0>>}

\* the entries buildOutdatedList makes of them
ScoreEntries ==
    {buildOutdatedList(<<[name |-> "left-pad", current |-> p[1], latest |-> p[2]]>>)[1] :
        p \in ScorePairs}

\* a Vulnerability as processVulnerabilities pushes it
ScoreVulnerabilityOf(severity) ==
    [id |-> Str(<<"1089">>), package |-> "left-pad", version |-> Str(<<"unknown">>),
     severity |-> severity, description |-> Str(<<"No description available">>),
     fixedIn |-> Str(<<"Check npm registry">>)]

ScoreInit ==
    /\ report = ScoreReport(NewReport(Undefined, Undefined, <<>>))
    /\ npmAudit = Undefined
    /\ result = NoResult
    /\ NotCalled

ScoreVulnerability(severity) ==
    /\ Len(report.vulnerabilities) < MaxVulns
    /\ \E r \in {[report EXCEPT !.vulnerabilities = Append(@, ScoreVulnerabilityOf(severity))]} :
          report' = ScoreReport(r)
    /\ UNCHANGED <<updateTypeCall, severityCall, child, manifest, op, tasks, outdated, vulnerabilities, npmAudit, result>>

ScoreOutdated(entry) ==
    /\ Len(report.outdated) < MaxOutdated
    /\ \E r \in {[report EXCEPT !.outdated = Append(@, entry)]} : report' = ScoreReport(r)
    /\ UNCHANGED <<updateTypeCall, severityCall, child, manifest, op, tasks, outdated, vulnerabilities, npmAudit, result>>

ScoreNext ==
    \/ \E severity \in Severities : ScoreVulnerability(severity)
    \/ \E entry \in ScoreEntries : ScoreOutdated(entry)

ScoreSpec == ScoreInit /\ [][ScoreNext]_vars

\* the number of entries of a list of vulnerabilities that have the given severity
NumOfSeverity(list, severity) == Cardinality({i \in DOMAIN list : list[i].severity = severity})

\* 15 per critical, 10 per high, 5 per moderate, 2 per low, 0 per unknown
VulnerabilityPenalties(list) ==
    15 * NumOfSeverity(list, CRITICAL) + 10 * NumOfSeverity(list, HIGH)
        + 5 * NumOfSeverity(list, MODERATE) + 2 * NumOfSeverity(list, LOW)
        + 0 * NumOfSeverity(list, UNKNOWN)

\* an outdated entry as buildOutdatedList builds it: two valid versions, and the bump
\* type determineUpdateType gives them
IsBuiltEntry(e) ==
    /\ SemverParse(e.current).valid
    /\ SemverParse(e.latest).valid
    /\ e.type = determineUpdateType(e.current, e.latest)

\* the penalty of one entry by its bump type alone: the difference of that component
TierPenalty(e) ==
    LET c == SemverParse(e.current)
        l == SemverParse(e.latest)
    IN CASE e.type = "major" -> 5 * (l.major - c.major)
         [] e.type = "minor" -> 2 * (l.minor - c.minor)
         [] e.type = "patch" -> 1 * (l.patch - c.patch)

RECURSIVE SumTierPenalty(_)
SumTierPenalty(list) ==
    IF list = <<>> THEN 0 ELSE TierPenalty(Head(list)) + SumTierPenalty(Tail(list))

\* C1: the health score of every report is an integer in [0,100], and it is exactly
\* 100 when the report has no vulnerabilities and no outdated entries.
C1_HealthScoreInRange ==
    /\ report.healthScore \in 0..100
    /\ (report.vulnerabilities = <<>> /\ report.outdated = <<>> => report.healthScore = 100)

\* the penalties exceed 100 and the score is clamped to 0
C1_Witness == RawScore(report) < 0 /\ report.healthScore = 0

\* C7: with no outdated entries the score before clamping is 100 minus 15 per critical,
\* 10 per high, 5 per moderate, 2 per low and 0 per unknown vulnerability, and the
\* health score is that number clamped to [0,100].
C7_VulnerabilityPenalties ==
    report.outdated = <<>> =>
        /\ RawScore(report) = 100 - VulnerabilityPenalties(report.vulnerabilities)
        /\ report.healthScore =
              Max(0, Min(100, 100 - VulnerabilityPenalties(report.vulnerabilities)))

\* one critical and one high vulnerability, no outdated entry: 75
C7_Witness ==
    /\ report.outdated = <<>>
    /\ Len(report.vulnerabilities) = 2
    /\ NumOfSeverity(report.vulnerabilities, CRITICAL) = 1
    /\ NumOfSeverity(report.vulnerabilities, HIGH) = 1
    /\ report.healthScore = 75

C9_MoreVulnerabilitiesNeverRaise ==
    [][(/\ report'.outdated = report.outdated
        /\ Len(report'.vulnerabilities) = Len(report.vulnerabilities) + 1
        /\ SubSeq(report'.vulnerabilities, 1, Len(report.vulnerabilities))
              = report.vulnerabilities)
       => report'.healthScore <= report.healthScore]_vars

\* a critical and then a low vulnerability were added to a report with an outdated entry
C9_Witness ==
    /\ report.outdated # <<>>
    /\ Len(report.vulnerabilities) = 2
    /\ report.vulnerabilities[1].severity = CRITICAL
    /\ report.vulnerabilities[2].severity = LOW
    /\ report.healthScore < 85

(***************************************************************************)
(* VulnSpec: processVulnerabilities over audit data of one or two packages *)
(***************************************************************************)
MaxVia == 2
MaxClock == 2

Times == 1..MaxClock

S_critical == Str(CRITICAL)
S_HIGH == Str(<<"H", "I", "G", "H">>)
S_severe == Str(<<"s", "e", "v", "e", "r", "e">>)

\* elements of a via list: four that carry a source or a title (a recognized, an
\* upper-case, an unrecognized and an absent severity), one whose severity is a number,
\* the name of another package (a string), and null
ViaElements ==
    {ViaObject(Num(1089), Str(<<"ReDoS">>), S_critical, Str(<<"<", "2", ".", "0", ".", "0">>)),
     ViaObject(Num(7), Undefined, S_HIGH, Undefined),
     ViaObject(Undefined, Str(<<"Prototype pollution">>), S_severe, Undefined),
     ViaObject(Num(9), Undefined, Undefined, Undefined),
     ViaObject(Num(5), Str(<<"Bad severity">>), Num(5), Undefined),
     Str(<<"lodash">>),
     Null}

RECURSIVE SeqsUpTo(_, _)
SeqsUpTo(S, n) ==
    IF n = 0 THEN {<<>>}
    ELSE SeqsUpTo(S, n - 1) \cup {Append(q, x) : q \in {r \in SeqsUpTo(S, n - 1) : Len(r) = n - 1}, x \in S}

\* what the audit data holds for one package
VulnInfos ==
    {VulnInfo(Array(items), fix) :
        items \in SeqsUpTo(ViaElements, MaxVia), fix \in {Undefined}}
    \cup {VulnInfo(Array(<<ViaObject(Num(7), Undefined, S_HIGH, Undefined)>>),
                    FixAvailable(Str(V_2_0_0))),
           VulnInfo(Array(<<ViaObject(Num(7), Undefined, S_HIGH, Undefined)>>), Bool(TRUE)),
           VulnInfo(Str(<<"lodash">>), Undefined),
           Null}

AuditInputs ==
    {Null, [t |-> "object", vulnerabilities |-> Undefined]}
    \cup {AuditObject(<<[name |-> "left-pad", info |-> i]>>) : i \in VulnInfos}
    \cup {AuditObject(<<[name |-> "left-pad", info |-> i], [name |-> "lodash", info |-> j]>>) :
            i, j \in VulnInfos}

VulnInit ==
    /\ npmAudit \in AuditInputs
    /\ report = NoReport
    /\ result = NoResult
    /\ NotCalled

ProcessAudit(now) ==
    /\ result = NoResult
    /\ result' = [t |-> "vulnerabilities", list |-> processVulnerabilities(npmAudit, now)]
    /\ UNCHANGED <<updateTypeCall, severityCall, child, manifest, op, tasks, outdated, vulnerabilities, npmAudit, report>>

VulnNext == \E now \in Times : ProcessAudit(now)

VulnSpec == VulnInit /\ [][VulnNext]_vars

\* does this element of a via list carry a source or a title?
CarriesSourceOrTitle(via) ==
    via.t = "object" /\ (Truthy(via.source) \/ Truthy(via.title))

\* the severity an element is to be reported with
ExpectedSeverity(via) ==
    IF IsStr(via.severity) /\ ToLowerCase(via.severity.s) \in {CRITICAL, HIGH, MODERATE, LOW}
    THEN ToLowerCase(via.severity.s)
    ELSE UNKNOWN

\* the via list of one audit entry, empty where the entry has none
ViaListOf(info) ==
    IF info.t = "object" /\ info.via.t = "array" THEN info.via.items ELSE <<>>

RECURSIVE ExpectedOfVia(_, _)
ExpectedOfVia(pkg, items) ==
    IF items = <<>> THEN <<>>
    ELSE (IF CarriesSourceOrTitle(Head(items))
          THEN <<[package |-> pkg, severity |-> ExpectedSeverity(Head(items))]>>
          ELSE <<>>) \o ExpectedOfVia(pkg, Tail(items))

RECURSIVE ExpectedOfAudit(_)
ExpectedOfAudit(entries) ==
    IF entries = <<>> THEN <<>>
    ELSE ExpectedOfVia(Head(entries).name, ViaListOf(Head(entries).info))
         \o ExpectedOfAudit(Tail(entries))

AuditEntries(audit) ==
    IF audit.t = "object" /\ audit.vulnerabilities.t = "object"
    THEN audit.vulnerabilities.entries ELSE <<>>

\* C10: processVulnerabilities emits exactly one Vulnerability, in order, for every
\* element of every via list that carries a source or a title, with the severity
\* normalized (unknown when unrecognized, absent or not a string), whatever the other
\* elements and packages of the audit data are.
C10_OneVulnerabilityPerElement ==
    result.t = "vulnerabilities" =>
        [i \in 1..Len(result.list) |->
            [package |-> result.list[i].package, severity |-> result.list[i].severity]]
        = ExpectedOfAudit(AuditEntries(npmAudit))

\* C12: the list processVulnerabilities returns holds no two entries with the same
\* package and the same id (the id being the source where there is one, and otherwise a
\* synthesized id that no other entry has).
C12_DeduplicatedByPackageAndId ==
    result.t = "vulnerabilities" =>
        \A i, j \in 1..Len(result.list) :
            (result.list[i].package = result.list[j].package
                /\ result.list[i].id = result.list[j].id) => i = j

(***************************************************************************)
(* SeveritySpec: normalizeSeverity applied to a severity, and again to     *)
(* what it returned.                                                       *)
(***************************************************************************)
MaxCalls == 2

UpperOf(c) == UpperChars[CHOOSE i \in 1..Len(LowerChars) : LowerChars[i] = c]

\* the spellings of a lower-case word in upper and lower case
RECURSIVE CaseVariants(_)
CaseVariants(w) ==
    IF w = <<>> THEN {<<>>}
    ELSE {<<c>> \o rest : c \in {Head(w), UpperOf(Head(w))}, rest \in CaseVariants(Tail(w))}

\* severities of the declared type string | undefined (and null): every spelling of the
\* four words, other words, words with a blank, the empty string, no severity; and two
\* values that are not of that type
SeverityInputs ==
    {Str(s) : s \in CaseVariants(CRITICAL) \cup CaseVariants(HIGH)
                    \cup CaseVariants(MODERATE) \cup CaseVariants(LOW)
                    \cup CaseVariants(UNKNOWN)}
    \cup {S_severe, Str(<<" ", "h", "i", "g", "h">>), Str(<<"l", "o", "w", " ">>),
          Str(<<"h", "i", "g">>), Str(<<>>), Undefined, Null, Num(5), Bool(TRUE)}

SeverityInit ==
    /\ severityCall \in {[calls |-> 0, input |-> x, value |-> x, thrown |-> FALSE] :
                            x \in SeverityInputs}
    /\ npmAudit = Undefined
    /\ report = NoReport
    /\ result = NoResult
    /\ manifest = Undefined
    /\ op = "none"
    /\ tasks = <<>>
    /\ outdated = <<>>
    /\ vulnerabilities = <<>>
    /\ child = NoChild
    /\ updateTypeCall = NoUpdateTypeCall

\* normalizeSeverity(value) returns or throws
NormalizeSeverity ==
    /\ severityCall.calls < MaxCalls /\ ~severityCall.thrown
    /\ \E r \in {normalizeSeverity(severityCall.value)} :
          severityCall' = [severityCall EXCEPT !.calls = @ + 1,
                                               !.value = IF r.thrown THEN @ ELSE Str(r.value),
                                               !.thrown = r.thrown]
    /\ UNCHANGED <<updateTypeCall, child, manifest, op, tasks, outdated, vulnerabilities,
                   npmAudit, report,
                   result>>

SeverityNext == NormalizeSeverity

SeveritySpec == SeverityInit /\ [][SeverityNext]_vars

MaxListed == 2

\* a major, a minor and a patch bump, with the penalties 5, 2 and 1
ReorderPairs == {<<V_1_0_0, V_2_0_0>>, <<V_1_1_0, V_1_2_0>>, <<V_1_1_1, V_1_1_2>>}
ReorderEntries ==
    {buildOutdatedList(<<[name |-> "left-pad", current |-> p[1], latest |-> p[2]]>>)[1] :
        p \in ReorderPairs}

\* the reports before "Update summary counts": every list of up to MaxListed
\* vulnerabilities and every list of up to MaxListed outdated entries
ReorderInit ==
    /\ report \in {[NewReport(Undefined, Undefined, <<>>)
                        EXCEPT !.vulnerabilities = vs, !.outdated = os] :
                    vs \in SeqsUpTo({ScoreVulnerabilityOf(s) : s \in Severities}, MaxListed),
                    os \in SeqsUpTo(ReorderEntries, MaxListed)}
    /\ npmAudit = Undefined
    /\ result = NoResult
    /\ NotCalled

\* the summary counts are updated, the health score is calculated, the report returned
ScoreAndReturn ==
    /\ result = NoResult
    /\ \E scored \in {ScoreReport(report)} : report' = scored
    /\ result' = [t |-> "report"]
    /\ UNCHANGED <<updateTypeCall, severityCall, child, manifest, op, tasks, outdated,
                   vulnerabilities, npmAudit>>

ReorderNext == ScoreAndReturn

ReorderSpec == ReorderInit /\ [][ReorderNext]_vars

\* the permutations of the indices of a list, and the list reordered by one
IndexPermutations(n) == {p \in [1..n -> 1..n] : \A i, j \in 1..n : p[i] = p[j] => i = j}
Permuted(list, p) == [i \in 1..Len(list) |-> list[p[i]]]

\* C23: the health score does not depend on the order of the lists: for every
\* permutation of the report's vulnerabilities and every permutation of its outdated
\* entries, counting and scoring the reordered report gives the report's healthScore.
C23_ScoreIsOrderIndependent ==
    result = [t |-> "report"] =>
        \A p \in IndexPermutations(Len(report.vulnerabilities)) :
            \A q \in IndexPermutations(Len(report.outdated)) :
                ScoreReport([report EXCEPT !.vulnerabilities = Permuted(@, p),
                                           !.outdated = Permuted(@, q)]).healthScore
                = report.healthScore

\* a scored report of two vulnerabilities of different severities and two outdated
\* entries of different penalties
C23_Witness ==
    /\ result = [t |-> "report"]
    /\ Len(report.vulnerabilities) = 2 /\ Len(report.outdated) = 2
    /\ report.vulnerabilities[1].severity # report.vulnerabilities[2].severity
    /\ OutdatedPenalty(report.outdated[1]) # OutdatedPenalty(report.outdated[2])
    /\ report.healthScore \in 1..99

(***************************************************************************)
(* UpdateTypeSpec: determineUpdateType applied to a pair of version        *)
(* strings.                                                                *)
(***************************************************************************)
MaxComponent == 1

\* the pre-release tags and the build metadata of the versions tried: none, or one
\* identifier
PreTags == {<<>>, <<"a">>, <<"b">>}
BuildTags == {<<>>, <<"x">>}

\* the string of a version, with its build metadata
VersionString(major, minor, patch, pre, build) ==
    SemverFormat([valid |-> TRUE, major |-> major, minor |-> minor, patch |-> patch,
                  prerelease |-> pre])
        \o (IF build = <<>> THEN <<>> ELSE <<"+">> \o build)

\* the valid versions with components up to MaxComponent, and a string that is none
UpdateTypeInputs ==
    {VersionString(major, minor, patch, pre, build) :
        major \in 0..MaxComponent, minor \in 0..MaxComponent, patch \in 0..MaxComponent,
        pre \in PreTags, build \in BuildTags}
    \cup {NotAVersion}

UpdateTypeInit ==
    /\ updateTypeCall \in {[called |-> FALSE, current |-> c, latest |-> l, type |-> ""] :
                              c \in UpdateTypeInputs, l \in UpdateTypeInputs}
    /\ npmAudit = Undefined
    /\ report = NoReport
    /\ result = NoResult
    /\ manifest = Undefined
    /\ op = "none"
    /\ tasks = <<>>
    /\ outdated = <<>>
    /\ vulnerabilities = <<>>
    /\ child = NoChild
    /\ severityCall = NoCall

\* determineUpdateType(current, latest) returns
DetermineUpdateType ==
    /\ ~updateTypeCall.called
    /\ \E type \in {determineUpdateType(updateTypeCall.current, updateTypeCall.latest)} :
          updateTypeCall' = [updateTypeCall EXCEPT !.called = TRUE, !.type = type]
    /\ UNCHANGED <<severityCall, child, manifest, op, tasks, outdated, vulnerabilities,
                   npmAudit, report, result>>

UpdateTypeNext == DetermineUpdateType

UpdateTypeSpec == UpdateTypeInit /\ [][UpdateTypeNext]_vars

\* the two arguments of the call, parsed
CurrentOfCall == SemverParse(updateTypeCall.current)
LatestOfCall == SemverParse(updateTypeCall.latest)

\* C21: determineUpdateType returns major, minor or patch for every pair, and for two
\* valid versions the first component that differs decides: major when the majors
\* differ, otherwise minor when the minors differ, otherwise patch.
C21_FirstDifferingComponentDecides ==
    updateTypeCall.called =>
        /\ updateTypeCall.type \in {"major", "minor", "patch"}
        /\ (CurrentOfCall.valid /\ LatestOfCall.valid) =>
              updateTypeCall.type
                 = IF CurrentOfCall.major # LatestOfCall.major THEN "major"
                   ELSE IF CurrentOfCall.minor # LatestOfCall.minor THEN "minor"
                   ELSE "patch"

\* C22: for two valid versions with the same major, minor and patch that differ in the
\* pre-release tag or the build metadata only, determineUpdateType returns patch.
C22_PrereleaseDifferenceIsPatch ==
    (/\ updateTypeCall.called
     /\ CurrentOfCall.valid /\ LatestOfCall.valid
     /\ updateTypeCall.current # updateTypeCall.latest
     /\ CompareMain(CurrentOfCall, LatestOfCall) = 0) =>
        updateTypeCall.type = "patch"

(***************************************************************************)
(* Spec: one call of generateDependencyReport (analyze) or of              *)
(* generateVulnerabilityReport (analyzeVulnerabilitiesOnly) on a manifest  *)
(* of at most two packages, with every outcome of every fetch.             *)
(***************************************************************************)
R_caret_1_0_0 == Str(<<"^">> \o V_1_0_0)
R_tilde_1_9_0 == Str(<<"~">> \o V_1_9_0)
R_between == Str(<<">", "=">> \o V_1_0_0 \o <<" ", "<">> \o V_2_0_0)
R_1_x == Str(<<"1", ".", "x">>)
R_3_0_0 == Str(V_3_0_0)

Deps(m) == Object(m)
Dep(name, range) == [name |-> name, value |-> range]

\* manifests that are mappings of names to ranges
ValidManifests ==
    {Manifest(Deps(<<Dep("left-pad", R_caret_1_0_0), Dep("lodash", R_tilde_1_9_0)>>),
              Undefined),
     Manifest(Deps(<<Dep("left-pad", R_between)>>), Deps(<<Dep("lodash", R_tilde_1_9_0)>>)),
     Manifest(Deps(<<Dep("lodash", R_caret_1_0_0)>>), Deps(<<Dep("lodash", R_1_x)>>)),
     Manifest(Deps(<<Dep("lodash", R_1_x)>>), Deps(<<Dep("lodash", R_caret_1_0_0)>>)),
     Manifest(Deps(<<Dep("left-pad", R_caret_1_0_0)>>), Undefined),
     Manifest(Undefined, Deps(<<Dep("lodash", R_3_0_0)>>)),
     Manifest(Deps(<<>>), Deps(<<>>))}

\* values that are not: no manifest, a number, a string, and objects whose dependencies
\* is a number, a string, or maps a name to a number
InvalidManifests ==
    {Undefined, Null, Num(42), Str(<<"{", "}">>),
     Manifest(Num(5), Undefined),
     Manifest(Str(<<"a", "b">>), Undefined),
     Manifest(Deps(<<Dep("lodash", Num(5)), Dep("left-pad", R_caret_1_0_0)>>), Undefined)}

Manifests == ValidManifests \cup InvalidManifests

\* what the registry answers: a newer major with the versions and their deprecation, a
\* newer minor, the current version, a latest tag that is no version, an error document
\* without dist-tags, and the JSON text null
RegistryBodies ==
    {PackageInfo(DistTags(Str(V_2_0_0)),
                 Deps(<<Dep(V_1_0_0, VersionData(Str(<<"use v2">>))),
                        Dep(V_1_9_0, VersionData(Undefined))>>)),
     PackageInfo(DistTags(Str(V_1_10_0)), Undefined),
     PackageInfo(DistTags(Str(V_1_0_0)), Deps(<<Dep(V_1_0_0, VersionData(Undefined))>>)),
     PackageInfo(DistTags(Str(NotAVersion)), Undefined),
     PackageInfo(Undefined, Undefined),
     Null}

\* what npms.io answers: quality 0.2, quality 0.4, maintenance 0.4 with the flag set,
\* good scores, a document without scores, and the JSON text null; quality 0.3, both
\* scores 0.5, and quality 0.2 with maintenance 0.4 and the flag set
NpmsBodies ==
    {NpmsData(Num(30), Num(90), Undefined),
     NpmsData(Num(50), Num(50), Bool(FALSE)),
     NpmsData(Num(20), Num(40), Bool(TRUE)),
     NpmsData(Num(20), Num(90), Undefined),
     NpmsData(Num(40), Num(90), Undefined),
     NpmsData(Num(90), Num(40), Bool(TRUE)),
     NpmsData(Num(90), Num(90), Bool(FALSE)),
     NpmsData(Undefined, Undefined, Undefined),
     Null}

FailureKinds == {"network", "parse"}

\* what `npm audit --json` prints
RunAudits ==
    {NoVulnerabilities,
     AuditObject(<<[name |-> "left-pad",
                    info |-> VulnInfo(Array(<<ViaObject(Num(1089), Str(<<"ReDoS">>),
                                                        S_critical, Undefined),
                                              ViaObject(Num(7), Undefined, S_HIGH,
                                                        Undefined)>>),
                                      Bool(TRUE))],
                   [name |-> "minimist",
                    info |-> VulnInfo(Array(<<ViaObject(Undefined,
                                                        Str(<<"Prototype pollution">>),
                                                        S_severe, Undefined)>>),
                                      Undefined)]>>)}

\* how the child process ends: exit code 0 or not, and its stdout
AuditOutcomes ==
    {<<"ok", Json(a)>> : a \in RunAudits}
    \cup {<<"error", Json(a)>> : a \in RunAudits}
    \cup {<<"ok", Unparseable>>, <<"error", Unparseable>>, <<"error", EmptyOutput>>}

\* Array.prototype.sort is stable: e goes after every element that does not compare
\* greater than it
RECURSIVE InsertByCurrent(_, _)
InsertByCurrent(sorted, e) ==
    IF sorted = <<>> THEN <<e>>
    ELSE IF SemverCompare(SemverParse(Head(sorted).current), SemverParse(e.current)) > 0
         THEN <<e>> \o sorted
         ELSE <<Head(sorted)>> \o InsertByCurrent(Tail(sorted), e)

RECURSIVE SortByCurrent(_, _)
SortByCurrent(sorted, rest) ==
    IF rest = <<>> THEN sorted
    ELSE SortByCurrent(InsertByCurrent(sorted, Head(rest)), Tail(rest))

\* sortOutdatedByPriority: the array it is given, sorted in place, is what it returns
sortOutdatedByPriority(outdatedList) == SortByCurrent(<<>>, outdatedList)

Running == op # "none" /\ result = NoResult

Init ==
    /\ manifest \in Manifests
    /\ op = "none"
    /\ tasks = <<>>
    /\ outdated = <<>>
    /\ vulnerabilities = <<>>
    /\ npmAudit = Undefined
    /\ report = NoReport
    /\ result = NoResult
    /\ child = NoChild
    /\ severityCall = NoCall
    /\ updateTypeCall = NoUpdateTypeCall

\* generateDependencyReport(packageJson) up to its await: getOutdatedFast throws on a
\* manifest that is null or undefined, and the catch block rethrows; otherwise one
\* callback per merged dependency is started, and getNpmAudit
Analyze ==
    /\ op = "none"
    /\ op' = "analyze"
    /\ IF IsNullish(manifest)
       THEN /\ result' = ReportError(CannotReadDependencies(manifest))
            /\ tasks' = tasks
       ELSE /\ tasks' = NewTasks(MergedDependencies(manifest))
            /\ result' = result
    /\ child' = ChildRunning
    /\ UNCHANGED <<updateTypeCall, severityCall, manifest, outdated, vulnerabilities, npmAudit, report>>

\* generateVulnerabilityReport(packageJson) up to its await: packageJson.name throws on
\* null or undefined and the catch block returns []
AnalyzeVulnerabilitiesOnly ==
    /\ op = "none"
    /\ op' = "vulnerabilities"
    /\ IF IsNullish(manifest)
       THEN /\ result' = VulnerabilityReportCatch(CannotReadName(manifest))
            /\ tasks' = tasks
       ELSE /\ tasks' = NewTasks(MergedDependencies(manifest))
            /\ result' = result
    /\ UNCHANGED <<updateTypeCall, severityCall, child, manifest, outdated, vulnerabilities, npmAudit, report>>

\* the response of the registry for task i arrives and parses: the callback runs on, to
\* its end in getOutdatedFast, to its end or to the call of fetchNpmsIoData in
\* getNpmAuditFast
RegistryRespond(i, body) ==
    /\ Running
    /\ tasks[i].pc = "registry" /\ tasks[i].registry = Pending
    /\ IF op = "analyze"
       THEN /\ outdated' = OutdatedAfterInfo(outdated, tasks[i].name, tasks[i].range, body)
            /\ tasks' = [tasks EXCEPT ![i].pc = "done", ![i].registry = Received(body)]
            /\ vulnerabilities' = vulnerabilities
       ELSE \E after \in {AuditAfterInfo(vulnerabilities, tasks[i].name, tasks[i].range, body)} :
                /\ vulnerabilities' = after.vulnerabilities
                /\ tasks' = [tasks EXCEPT ![i].pc = IF after.awaits THEN "npms" ELSE "done",
                                          ![i].registry = Received(body)]
                /\ outdated' = outdated
    /\ UNCHANGED <<updateTypeCall, severityCall, child, manifest, op, npmAudit, report, result>>

\* the request of task i fails, or the response does not parse: fetchPackageInfo rejects
RegistryFail(i, kind) ==
    /\ Running
    /\ tasks[i].pc = "registry" /\ tasks[i].registry = Pending
    /\ tasks' = [tasks EXCEPT ![i] = AfterRegistryFailure(@, kind)]
    /\ UNCHANGED <<updateTypeCall, severityCall, child, manifest, op, outdated, vulnerabilities, npmAudit, report, result>>

\* the socket of task i's registry request has been idle for 5000 ms: the request emits
\* 'timeout', for which fetchPackageInfo registers no listener; the request is neither
\* destroyed nor rejected, and the server stays silent
RegistryTimeout(i) ==
    /\ Running
    /\ tasks[i].pc = "registry" /\ tasks[i].registry = Pending
    /\ tasks' = [tasks EXCEPT ![i].registry = Failed("timeout")]
    /\ UNCHANGED <<updateTypeCall, severityCall, child, manifest, op, outdated, vulnerabilities, npmAudit, report, result>>

\* the response of npms.io for task i arrives and parses: checkNpmsIoSecurity runs to
\* its end, and so does the callback
NpmsRespond(i, data) ==
    /\ Running
    /\ tasks[i].pc = "npms" /\ tasks[i].npms = Pending
    /\ \E currentVersion \in {extractVersionFromRange(tasks[i].range.s)} :
          vulnerabilities' =
              AuditAfterNpms(vulnerabilities, tasks[i].name, currentVersion, data)
    /\ tasks' = [tasks EXCEPT ![i].pc = "done", ![i].npms = Received(data)]
    /\ UNCHANGED <<updateTypeCall, severityCall, child, manifest, op, outdated, npmAudit, report, result>>

\* fetchNpmsIoData rejects (an error, an unparseable response, or the 'timeout' event);
\* the catch block of checkNpmsIoSecurity swallows it
NpmsFail(i, kind) ==
    /\ Running
    /\ tasks[i].pc = "npms" /\ tasks[i].npms = Pending
    /\ tasks' = [tasks EXCEPT ![i].pc = "done", ![i].npms = Failed(kind)]
    /\ UNCHANGED <<updateTypeCall, severityCall, child, manifest, op, outdated, vulnerabilities, npmAudit, report, result>>

\* `npm audit --json` ends and getNpmAudit returns
AuditSettle(exit, stdout) ==
    /\ Running /\ op = "analyze"
    /\ child = ChildRunning
    /\ child' = ChildEnded(exit, stdout)
    /\ npmAudit' = getNpmAudit(exit, stdout)
    /\ UNCHANGED <<updateTypeCall, severityCall, manifest, op, tasks, outdated, vulnerabilities, report, result>>

\* generateDependencyReport after its await: both promises have settled; the report is
\* built, or the rejection is rethrown
FinishAnalyze(now) ==
    /\ Running /\ op = "analyze"
    /\ AllSettled(tasks) /\ child.state = "ended"
    /\ IF AnyRejected(tasks)
       THEN /\ result' = ReportError("request failed")
            /\ report' = report
       ELSE /\ \E built \in {NewReport(ManifestDependencies(manifest),
                                       ManifestDevDependencies(manifest), outdated)} :
               \E r \in {[built EXCEPT !.vulnerabilities = processVulnerabilities(npmAudit, now)]} :
                  report' = ScoreReport(r)
            /\ result' = [t |-> "report"]
    /\ UNCHANGED <<updateTypeCall, severityCall, child, manifest, op, tasks, outdated, vulnerabilities, npmAudit>>

\* generateVulnerabilityReport after its await: getNpmAuditFast returns
\* { vulnerabilities }, or { vulnerabilities: {} } from its catch block, and the list
\* processVulnerabilities makes of it is returned
FinishVulnerabilities(now) ==
    /\ Running /\ op = "vulnerabilities"
    /\ AllSettled(tasks)
    /\ \E audit \in {IF AnyRejected(tasks) THEN NoVulnerabilities
                     ELSE AuditObject(vulnerabilities)} :
          /\ npmAudit' = audit
          /\ result' = [t |-> "vulnerabilities", list |-> processVulnerabilities(audit, now)]
    /\ UNCHANGED <<updateTypeCall, severityCall, child, manifest, op, tasks, outdated, vulnerabilities, report>>

\* a caller that holds the returned report hands report.outdated to
\* sortOutdatedByPriority (as getOutdatedPackages does with sortByPriority=true): the
\* array is sorted in place
SortOutdated ==
    /\ result = [t |-> "report"]
    /\ \E sorted \in {sortOutdatedByPriority(report.outdated)} :
          report' = [report EXCEPT !.outdated = sorted]
    /\ UNCHANGED <<updateTypeCall, severityCall, child, manifest, op, tasks, outdated, vulnerabilities,
                   npmAudit, result>>

Next ==
    \/ Analyze
    \/ AnalyzeVulnerabilitiesOnly
    \/ \E i \in DOMAIN tasks : \E body \in RegistryBodies : RegistryRespond(i, body)
    \/ \E i \in DOMAIN tasks : \E kind \in FailureKinds : RegistryFail(i, kind)
    \/ \E i \in DOMAIN tasks : RegistryTimeout(i)
    \/ \E i \in DOMAIN tasks : \E data \in NpmsBodies : NpmsRespond(i, data)
    \/ \E i \in DOMAIN tasks : \E kind \in FailureKinds \cup {"timeout"} : NpmsFail(i, kind)
    \/ \E o \in AuditOutcomes : AuditSettle(o[1], o[2])
    \/ \E now \in Times : FinishAnalyze(now)
    \/ \E now \in Times : FinishVulnerabilities(now)
    \/ SortOutdated

Spec == Init /\ [][Next]_vars

\* the entries of a list that are about the package of the given name
EntriesOf(list, name) == SelectSeq(list, LAMBDA e : e.package = name)

\* what a run yields for a task's package when it is the only package of the manifest:
\* the outdated entries of analyze
OutdatedAlone(task) ==
    IF task.registry.kind # "response" THEN <<>>
    ELSE buildOutdatedList(OutdatedAfterInfo(<<>>, task.name, task.range, task.registry.body))

\* and the vulnerabilities object of analyzeVulnerabilitiesOnly
AuditAlone(task) ==
    IF task.registry.kind # "response" THEN <<>>
    ELSE LET after == AuditAfterInfo(<<>>, task.name, task.range, task.registry.body)
         IN IF after.awaits /\ task.npms.kind = "response"
            THEN AuditAfterNpms(after.vulnerabilities, task.name,
                                extractVersionFromRange(task.range.s), task.npms.body)
            ELSE after.vulnerabilities

FetchFailed(task) == task.registry.kind \in FailureKinds

\* C2: a network error or an unparseable response for one package never makes analyze
\* or analyzeVulnerabilitiesOnly fail (analyze throws only before any fetch has started,
\* analyzeVulnerabilitiesOnly never), and what the run returns for every package is what
\* a run on that package alone yields from the same responses: nothing for a package
\* whose registry fetch failed, and entries that no other package's failure changes.
C2_FetchFailureIsIsolated ==
    /\ result.t = "error" => tasks = <<>>
    /\ result.t = "report" =>
          /\ \A i \in DOMAIN tasks :
                EntriesOf(report.outdated, tasks[i].name) = OutdatedAlone(tasks[i])
          /\ \A k \in DOMAIN report.outdated :
                \E i \in DOMAIN tasks : ~FetchFailed(tasks[i])
                                        /\ tasks[i].name = report.outdated[k].package
    /\ (op = "vulnerabilities" /\ result.t = "vulnerabilities") =>
          /\ \A i \in DOMAIN tasks : \A now \in Times :
                EntriesOf(result.list, tasks[i].name)
                = processVulnerabilities(AuditObject(AuditAlone(tasks[i])), now)
          /\ \A k \in DOMAIN result.list :
                \E i \in DOMAIN tasks : ~FetchFailed(tasks[i])
                                        /\ tasks[i].name = result.list[k].package

\* analyze has returned a report although the response for left-pad did not parse, and
\* the report lists lodash as outdated
C2_Witness ==
    /\ op = "analyze" /\ result.t = "report"
    /\ \E i, j \in DOMAIN tasks :
          /\ tasks[i].name = "left-pad" /\ tasks[i].registry.kind = "parse"
          /\ tasks[j].name = "lodash" /\ tasks[j].registry.kind = "response"
          /\ EntriesOf(report.outdated, "lodash") # <<>>
          /\ EntriesOf(report.outdated, "left-pad") = <<>>

\* C3: once the registry fetch of a package has timed out without a response, the run
\* of analyze still ends: when nothing more can happen, it has returned a report, and
\* the report has no outdated entry for the timed-out package.
C3_TimedOutFetchEndsTheRun ==
    (/\ op = "analyze"
     /\ \E i \in DOMAIN tasks : tasks[i].registry.kind = "timeout"
     /\ ~ENABLED Next)
    => /\ result.t = "report"
       /\ \A i \in DOMAIN tasks :
             tasks[i].registry.kind = "timeout" =>
                EntriesOf(report.outdated, tasks[i].name) = <<>>

\* is v a mapping of names to range strings?
IsRangeMapping(v) == v.t = "object" /\ \A i \in DOMAIN v.m : IsStr(v.m[i].value)

\* is the manifest an object whose dependencies and devDependencies are absent or
\* mappings of names to ranges?
StructurallyValid(packageJson) ==
    /\ packageJson.t = "object"
    /\ \A d \in {packageJson.dependencies, packageJson.devDependencies} :
          IsNullish(d) \/ IsRangeMapping(d)

\* C4: analyze on a structurally invalid manifest ends in the failure "Failed to
\* generate dependency report: <cause>", never in a report.
C4_InvalidManifestFails ==
    (op = "analyze" /\ ~StructurallyValid(manifest) /\ result # NoResult) =>
        /\ result.t = "error"
        /\ result.message[1] = "Failed to generate dependency report: "

\* the number of entries of a manifest mapping, 0 for an absent one
MappingSize(v) == IF v.t = "object" THEN Len(v.m) ELSE 0

\* C5: a returned report is consistent: the four severity counts are those of its
\* vulnerabilities, summary.outdated is the length of its outdated list, totalDeps and
\* totalDevDeps are the sizes of the manifest's two mappings and totalDependencies their
\* sum, and healthScore is the score of these vulnerabilities and outdated entries;
\* until a report is returned, and when analyze fails, there is no report at all.
C5_ReportIsConsistent ==
    /\ result.t = "report" =>
          /\ report.summary.critical = NumOfSeverity(report.vulnerabilities, CRITICAL)
          /\ report.summary.high = NumOfSeverity(report.vulnerabilities, HIGH)
          /\ report.summary.moderate = NumOfSeverity(report.vulnerabilities, MODERATE)
          /\ report.summary.low = NumOfSeverity(report.vulnerabilities, LOW)
          /\ report.summary.outdated = Len(report.outdated)
          /\ StructurallyValid(manifest) =>
                /\ report.summary.totalDeps = MappingSize(manifest.dependencies)
                /\ report.summary.totalDevDeps = MappingSize(manifest.devDependencies)
          /\ report.totalDependencies
                = report.summary.totalDeps + report.summary.totalDevDeps
          /\ report.healthScore
                = Max(0, Min(100, 100 - VulnerabilityPenalties(report.vulnerabilities)
                                      - SumTierPenalty(report.outdated)))
    /\ result.t # "report" => report = NoReport

\* a returned report with a critical and a high vulnerability, an outdated entry and
\* dependencies in both mappings
C5_Witness ==
    /\ result.t = "report"
    /\ report.summary.critical = 1 /\ report.summary.high = 1
    /\ report.summary.outdated >= 1
    /\ report.summary.totalDeps = 1 /\ report.summary.totalDevDeps = 1
    /\ report.healthScore < 75

\* the declared range with the operators ^ ~ > = < removed and the blanks at its ends
StrippedRange(range) == Trim(SelectSeq(range.s, LAMBDA c : c \notin {"^", "~", ">", "=", "<"}))

\* the version the registry returned as latest, NoVersion where it returned none
ReturnedLatest(task) ==
    IF task.registry.kind # "response" \/ task.registry.body.t # "object" THEN NoVersion
    ELSE IF task.registry.body.distTags.t # "object" THEN NoVersion
    ELSE IF ~IsStr(task.registry.body.distTags.latest) THEN NoVersion
    ELSE SemverParse(task.registry.body.distTags.latest.s)

\* the range is one exact version, a latest version was returned, and it is greater
IsBehindLatest(task) ==
    /\ IsStr(task.range)
    /\ SemverParse(StrippedRange(task.range)).valid
    /\ ReturnedLatest(task).valid
    /\ SemverCompare(ReturnedLatest(task), SemverParse(StrippedRange(task.range))) = 1

\* C6: a package is in the outdated list of a returned report if and only if its range
\* without the operators is one exact valid version, the registry returned a latest
\* version, and latest is greater than current as semantic versions; every entry holds
\* that current and that latest, both valid versions.
C6_OutdatedIffBehindLatest ==
    result.t = "report" =>
        /\ \A i \in DOMAIN tasks :
              EntriesOf(report.outdated, tasks[i].name) # <<>> <=> IsBehindLatest(tasks[i])
        /\ \A k \in DOMAIN report.outdated :
              /\ SemverParse(report.outdated[k].current).valid
              /\ SemverParse(report.outdated[k].latest).valid
              /\ \E i \in DOMAIN tasks :
                    /\ tasks[i].name = report.outdated[k].package
                    /\ SemverParse(report.outdated[k].current)
                          = SemverParse(StrippedRange(tasks[i].range))
                    /\ SemverParse(report.outdated[k].latest) = ReturnedLatest(tasks[i])

\* lodash at ~1.9.0 with latest 1.10.0 is outdated (1.10.0 is the smaller string);
\* left-pad at ^1.0.0 with latest 1.0.0 is not
C6_Witness ==
    /\ result.t = "report"
    /\ \E i, j \in DOMAIN tasks :
          /\ tasks[i].name = "lodash" /\ tasks[i].range = R_tilde_1_9_0
          /\ ReturnedLatest(tasks[i]) = SemverParse(V_1_10_0)
          /\ EntriesOf(report.outdated, "lodash") # <<>>
          /\ tasks[j].name = "left-pad" /\ tasks[j].range = R_caret_1_0_0
          /\ ReturnedLatest(tasks[j]) = SemverParse(V_1_0_0)
          /\ EntriesOf(report.outdated, "left-pad") = <<>>

\* the Report analyze builds from the data of this run when Date.now() returns now
ReportAt(now) ==
    Bind(NewReport(ManifestDependencies(manifest), ManifestDevDependencies(manifest),
                   outdated), LAMBDA built :
        ScoreReport([built EXCEPT !.vulnerabilities = processVulnerabilities(npmAudit, now)]))

\* C13: the Report analyze returns is the Report any run of analyze returns on the same
\* manifest with the same responses of the registry and the same audit data, whatever
\* the time of the run is, every vulnerability id included.
C13_SameDataSameReport ==
    result = [t |-> "report"] => \A now \in Times : report = ReportAt(now)

\* npm audit --json failed: it printed nothing and exited with an error, or what it
\* printed is not JSON
AuditFailed ==
    /\ child.state = "ended"
    /\ \/ child.stdout = Unparseable
       \/ child.exit = "error" /\ child.stdout = EmptyOutput

\* C14: when the audit call fails or prints malformed JSON, analyze does not fail: the
\* empty mapping stands for the audit data, and the report returned has no
\* vulnerabilities, the four severity counts 0, and for every package the outdated
\* entries its registry response alone gives.
C14_FailedAuditIsEmptyAudit ==
    AuditFailed =>
        /\ npmAudit = AuditObject(<<>>)
        /\ result.t # "error"
        /\ result.t = "report" =>
              /\ report.vulnerabilities = <<>>
              /\ report.summary.critical = 0 /\ report.summary.high = 0
              /\ report.summary.moderate = 0 /\ report.summary.low = 0
              /\ \A i \in DOMAIN tasks :
                    EntriesOf(report.outdated, tasks[i].name) = OutdatedAlone(tasks[i])
              /\ \A k \in DOMAIN report.outdated :
                    \E i \in DOMAIN tasks : tasks[i].name = report.outdated[k].package

\* npm audit exited with an error and printed no JSON, and a report with an outdated
\* entry was returned
C14_Witness ==
    /\ result.t = "report"
    /\ child = ChildEnded("error", Unparseable)
    /\ Len(report.outdated) >= 1

\* C15: once analyze has returned a Report, no step changes it: not the content or
\* order of report.outdated or report.vulnerabilities, nor any other field.
C15_ReturnedReportNeverChanges ==
    [][result = [t |-> "report"] => report' = report]_vars

\* the elements of a list, as a set
SetOf(list) == {list[k] : k \in DOMAIN list}

\* the outdated entries of the tasks' packages, each built from its own response, in the
\* order the tasks were started
RECURSIVE OutdatedInLaunchOrder(_)
OutdatedInLaunchOrder(ts) ==
    IF ts = <<>> THEN <<>> ELSE OutdatedAlone(Head(ts)) \o OutdatedInLaunchOrder(Tail(ts))

\* what the accumulators hold under a name
Accumulated(acc, name) == SelectSeq(acc, LAMBDA e : e.name = name)

\* whatever the order of completion: the outdated entries of a report are, as a set,
\* those of the tasks, its healthScore is the score of the report that lists them in the
\* order the tasks were started, and the vulnerabilities of a vulnerabilities-only run
\* are, as a set, those of the tasks
SameForAllCompletionOrders ==
    /\ result.t = "report" =>
          /\ SetOf(report.outdated) = SetOf(OutdatedInLaunchOrder(tasks))
          /\ Len(report.outdated) = Len(OutdatedInLaunchOrder(tasks))
          /\ report.healthScore
                = ScoreReport([report EXCEPT !.outdated = OutdatedInLaunchOrder(tasks)]).healthScore
    /\ (op = "vulnerabilities" /\ result.t = "vulnerabilities" /\ tasks # <<>>) =>
          \A now \in Times :
             SetOf(result.list)
             = UNION {SetOf(processVulnerabilities(AuditObject(AuditAlone(tasks[i])), now)) :
                        i \in DOMAIN tasks}

\* a step of a running task leaves what the accumulators hold under the names of the
\* other tasks as it is, and no entry appears under a name that is no task's
WritesOwnEntryOnly ==
    (Running /\ DOMAIN tasks' = DOMAIN tasks) =>
        /\ \A i \in DOMAIN tasks :
              tasks'[i] = tasks[i] =>
                 /\ Accumulated(outdated', tasks[i].name) = Accumulated(outdated, tasks[i].name)
                 /\ Accumulated(vulnerabilities', tasks[i].name)
                       = Accumulated(vulnerabilities, tasks[i].name)
        /\ \A k \in DOMAIN outdated' : \E i \in DOMAIN tasks : tasks[i].name = outdated'[k].name
        /\ \A k \in DOMAIN vulnerabilities' :
              \E i \in DOMAIN tasks : tasks[i].name = vulnerabilities'[k].name

\* C16: in every order in which the fetches of a run complete, a task writes only the
\* accumulator entry of its own package and no other package's entry is overwritten or
\* removed; so the set of outdated entries, the set of vulnerabilities and the
\* healthScore are the same for every order of completion.
C16_CompletionOrderDoesNotMatter ==
    []SameForAllCompletionOrders /\ [][WritesOwnEntryOnly]_vars

\* a report with two outdated entries whose tasks completed in the reverse of the order
\* they were started in
C16_Witness ==
    /\ result.t = "report" /\ Len(tasks) = 2 /\ Len(outdated) = 2
    /\ outdated[1].name = tasks[2].name
    /\ outdated[2].name = tasks[1].name

\* the names a manifest mapping declares, none for an absent one
MappingNames(v) == IF v.t = "object" THEN {v.m[i].name : i \in DOMAIN v.m} ELSE {}

\* C17: in a run on a structurally valid manifest, every name of dependencies or
\* devDependencies has one task and one registry request, a name in both mappings
\* included, and no other request is made; the request is not issued again, whether it
\* is pending, answered, failed or timed out; and a report has at most one outdated
\* entry for a name.
C17_OneRequestPerName ==
    (op # "none" /\ StructurallyValid(manifest)) =>
        /\ \A name \in MappingNames(manifest.dependencies)
                        \cup MappingNames(manifest.devDependencies) :
              \E i \in DOMAIN tasks :
                 /\ tasks[i].name = name
                 /\ tasks[i].requests = 1
                 /\ \A j \in DOMAIN tasks : tasks[j].name = name => j = i
        /\ \A i \in DOMAIN tasks :
              tasks[i].name \in MappingNames(manifest.dependencies)
                                \cup MappingNames(manifest.devDependencies)
        /\ result.t = "report" =>
              \A i \in DOMAIN tasks : Len(EntriesOf(report.outdated, tasks[i].name)) <= 1

\* lodash is in both mappings; the run has made one request for it and returned a report
\* with one outdated entry
C17_Witness ==
    /\ result.t = "report"
    /\ StructurallyValid(manifest)
    /\ "lodash" \in MappingNames(manifest.dependencies)
                     \cap MappingNames(manifest.devDependencies)
    /\ Len(tasks) = 1 /\ tasks[1].requests = 1
    /\ Len(EntriesOf(report.outdated, "lodash")) = 1

\* has the quality-signal fetch of a task been launched?  It is in flight while the
\* task waits for it, and settled once it has answered or failed
NpmsLaunched(task) == task.pc = "npms" \/ task.npms # Pending

\* C18: analyze launches, together with the registry fetches of its tasks, the audit
\* fetch and the quality-signal fetch of every package; and a report is built only when
\* every one of these has settled.
C18_AllSourcesLaunchedAndAwaited ==
    /\ (op = "analyze" /\ tasks # <<>>) =>
          /\ child # NoChild
          /\ \A i \in DOMAIN tasks : tasks[i].requests = 1 /\ NpmsLaunched(tasks[i])
    /\ (op = "analyze" /\ report # NoReport) =>
          /\ child.state = "ended"
          /\ \A i \in DOMAIN tasks :
                /\ tasks[i].registry.kind \in {"response"} \cup FailureKinds
                /\ tasks[i].npms # Pending

\* the range of the task's package names a concrete version
HasConcreteVersion(task) ==
    IsStr(task.range) /\ Truthy(extractVersionFromRange(task.range.s))

\* C19: in a vulnerabilities-only run, a failed fetch of one source for a package takes
\* away the entries of that source only: after a failed registry fetch the quality
\* signal of the package is still consulted, and after a failed quality-signal fetch
\* the entries made from the registry document are still returned.
C19_FailureRemovesOneSourceOnly ==
    (op = "vulnerabilities" /\ result.t = "vulnerabilities") =>
        \A i \in DOMAIN tasks :
            /\ (FetchFailed(tasks[i]) /\ HasConcreteVersion(tasks[i])) =>
                   tasks[i].npms # Pending
            /\ tasks[i].npms.kind \in FailureKinds \cup {"timeout"} =>
                   \A now \in Times :
                      EntriesOf(result.list, tasks[i].name)
                      = processVulnerabilities(
                           AuditObject(AuditAfterInfo(<<>>, tasks[i].name, tasks[i].range,
                                                      tasks[i].registry.body).vulnerabilities),
                           now)

\* the returned entries of a package that have the given description
Described(name, description) ==
    SelectSeq(result.list,
              LAMBDA e : e.package = name /\ e.description = Str(<<description>>))

\* is the score a number under the given hundredths?
Under(score, hundredths) == score.t = "number" /\ score.n < hundredths

\* C20: for a package whose quality signal was received, the list returned has one
\* entry "Low quality/maintenance score detected" exactly when quality < 0.5 or
\* maintenance < 0.5, of severity high when quality < 0.3 and moderate otherwise; and,
\* whatever the scores are, one entry "Package flagged with known vulnerabilities" of
\* severity high exactly when the flag is set.
C20_QualitySignalRule ==
    (op = "vulnerabilities" /\ result.t = "vulnerabilities") =>
        \A i \in DOMAIN tasks :
            (tasks[i].npms.kind = "response" /\ tasks[i].npms.body.t = "object") =>
                /\ Len(Described(tasks[i].name, "Low quality/maintenance score detected"))
                      = IF Under(tasks[i].npms.body.quality, 50)
                           \/ Under(tasks[i].npms.body.maintenance, 50)
                        THEN 1 ELSE 0
                /\ \A e \in SetOf(Described(tasks[i].name,
                                              "Low quality/maintenance score detected")) :
                      e.severity = IF Under(tasks[i].npms.body.quality, 30)
                                   THEN HIGH ELSE MODERATE
                /\ Len(Described(tasks[i].name, "Package flagged with known vulnerabilities"))
                      = IF tasks[i].npms.body.hasVulnerabilities = Bool(TRUE) THEN 1 ELSE 0
                /\ \A e \in SetOf(Described(tasks[i].name,
                                              "Package flagged with known vulnerabilities")) :
                      e.severity = HIGH

\* quality 0.2, maintenance 0.4 and the flag set: both entries are returned, both high
C20_Witness ==
    /\ op = "vulnerabilities" /\ result.t = "vulnerabilities"
    /\ \E i \in DOMAIN tasks :
          /\ tasks[i].npms = Received(NpmsData(Num(20), Num(40), Bool(TRUE)))
          /\ Len(Described(tasks[i].name, "Low quality/maintenance score detected")) = 1
          /\ Len(Described(tasks[i].name, "Package flagged with known vulnerabilities")) = 1
          /\ \A k \in DOMAIN result.list :
                result.list[k].package = tasks[i].name => result.list[k].severity = HIGH

\* nothing of the manifest could be processed: there is no manifest, or no registry
\* fetch of the run was answered
NothingProcessed ==
    IsNullish(manifest) \/ \A i \in DOMAIN tasks : tasks[i].registry.kind # "response"

====
